---- MODULE Spec2Model ----
(***************************************************************************)
(* A model of the search heuristics of Rapfi: the saturating history       *)
(* entry (search/history.h), the tuned margin and move-count formulas      *)
(* (search/ab/parameter.h), the deferred move cache of the mix8 evaluator  *)
(* and the owner of its weights (eval/mix8nnue.h).                         *)
(*                                                                         *)
(* Several specifications share the variables; each drives one component   *)
(* and leaves the variables of the others at their initial values.         *)
(***************************************************************************)
EXTENDS Integers, Sequences, FiniteSets, TLC

VARIABLES
    value,      \* HistTable::Entry::value of the entry under study
    bonus,      \* the argument of the last operator<< call on it
    status,     \* "ok", or the assertion that aborted the process
    start,      \* SpecRepeat: the value the entry held before the repeated updates
    reload,     \* SpecRace: whether the build reads value twice in "value += f(value)"
    wpc,        \* SpecRace: each worker's position inside operator<<
    wbonus,     \* SpecRace: each worker's bonus argument
    wrhs,       \* SpecRace: the value each worker read for value * |bonus| / Range
    wlhs,       \* SpecRace: the value each worker read as left operand of +=
    wdone,      \* SpecRace: number of operator<< calls started so far
    lost,       \* SpecRace: whether some store has overwritten a store it never read
    call,       \* SpecParam: the last call of a formula: function, arguments, result
    prev,       \* SpecParam: the call before it, when it was of the same function
    moves,      \* the stones on the board, in the order they were placed
    moveCache,  \* Mix8Evaluator::moveCache[side]: the deferred board deltas
    accumulator,            \* Mix8Evaluator::accumulator[side]
    valueSumBoardHistory,   \* Mix8Evaluator::valueSumBoardHistory[side]
    lastOp,     \* the last operation ("moveundo": an undo right after a move)
    snapCache,  \* moveCache as it was before the last move
    snapAcc,    \* SpecAcc: accumulator as it was before the last update<MOVE>
    undone,     \* whether the last cache flush applied an update<UNDO>
    weights,    \* SpecWeight: each Mix8WeightTwoSide object: its life and sideWeight
    blobs       \* SpecWeight: each Mix8Weight on the heap: its owner and its deletions

histVars == <<value, bonus, status>>
raceVars == <<reload, wpc, wbonus, wrhs, wlhs, wdone, lost>>
paramVars == <<call, prev>>
evalVars ==
    <<moves, moveCache, accumulator, valueSumBoardHistory, lastOp, snapCache, snapAcc, undone>>
weightVars == <<weights, blobs>>
vars ==
    <<value, bonus, status, start, reload, wpc, wbonus, wrhs, wlhs, wdone, lost,
      call, prev, moves, moveCache, accumulator, valueSumBoardHistory, lastOp, snapCache,
      snapAcc, undone, weights, blobs>>

----------------------------------------------------------------------------
(* Integer arithmetic of the C++ source *)

Abs(x) == IF x < 0 THEN -x ELSE x

\* C++ integer division truncates toward zero (b > 0 at every use).
TruncDiv(a, b) == IF a >= 0 THEN a \div b ELSE -((-a) \div b)

\* Conversion of an int to int16_t (the backing type T of the history tables).
ToInt16(x) == ((x + 32768) % 65536) - 32768

----------------------------------------------------------------------------
(* search/history.h *)

\* typedef HistTable<int16_t, 10692, ...> MainHistory / MoveHistory
Range == 10692

\* Bonus arguments are drawn from the magnitudes 0..MaxSmallBonus,
\* Range-MaxSmallBonus..Range+MaxSmallBonus, Range/2 and Range/3, of both signs.
MaxSmallBonus == 2

BonusMags ==
    (0 .. MaxSmallBonus)
        \cup {Range - j : j \in 0 .. MaxSmallBonus}
        \cup {Range + j : j \in 1 .. MaxSmallBonus}
        \cup {Range \div 2, Range \div 3}

BonusInputs == BonusMags \cup {-m : m \in BonusMags}

ValidBonuses == {b \in BonusInputs : Abs(b) <= Range}

\* value += bonus - value * std::abs(bonus) / Range;   with two reads of value:
\* lhs is the left operand of +=, rhs the value inside the product.
MutStoreNoDecay(lhs, rhs, b) == ToInt16(lhs + b)
MutStoreSignedBonus(lhs, rhs, b) == ToInt16(lhs + (b - TruncDiv(rhs * b, Range)))
EntryStore(lhs, rhs, b) == ToInt16(lhs + (b - TruncDiv(rhs * Abs(b), Range)))

\* The sequential update: both reads see the same value.
EntryUpdate(v, b) == EntryStore(v, v, b)

\* assert(std::abs(bonus) <= Range)
MutBonusAssertLoose(b) == Abs(b) <= Range + 1
BonusAssert(b) == Abs(b) <= Range

\* assert(std::abs(value) <= Range)
ValueAssert(v) == Abs(v) <= Range

\* HistTable::init(0) at the start of a search
InitHist == value = 0 /\ bonus = 0 /\ status = "ok"

InitRepeatIdle == start = 0
InitRaceIdle ==
    /\ reload = FALSE
    /\ wpc = <<>> /\ wbonus = <<>> /\ wrhs = <<>> /\ wlhs = <<>>
    /\ wdone = 0
    /\ lost = FALSE

\* Entry::operator<<(bonus), called by the only user of the entry
Update(b) ==
    /\ status = "ok"
    /\ bonus' = b
    /\ IF ~BonusAssert(b)
         THEN /\ status' = "assert_bonus"
              /\ value' = value
         ELSE /\ value' = EntryUpdate(value, b)
              /\ status' = IF ValueAssert(EntryUpdate(value, b))
                              THEN "ok" ELSE "assert_value"

\* No formula of search/ab/parameter.h has been called.
NoCall == [fn |-> "none", d |-> 0, improving |-> FALSE, delta |-> 0, result |-> 0]

InitParamIdle == call = NoCall /\ prev = NoCall

\* No evaluator has been constructed.
InitEvalIdle ==
    /\ moves = <<>> /\ moveCache = <<>> /\ accumulator = <<>>
    /\ valueSumBoardHistory = <<>> /\ lastOp = "" /\ snapCache = <<>> /\ snapAcc = <<>>
    /\ undone = FALSE

\* No weight has been loaded.
InitWeightIdle == weights = <<>> /\ blobs = <<>>

Init ==
    /\ InitHist /\ InitRepeatIdle /\ InitRaceIdle /\ InitParamIdle /\ InitEvalIdle
    /\ InitWeightIdle

Next ==
    \E b \in BonusInputs :
        Update(b) /\ UNCHANGED <<start, raceVars, paramVars, evalVars, weightVars>>

Spec == Init /\ [][Next]_vars

\* C1: from the zero entry, after any sequence of operator<< calls the stored
\* value stays in [-Range, Range] (calls with an out-of-range bonus abort and
\* store nothing, so every stored value comes from bonuses within the range).
C1_ValueWithinRange == Abs(value) <= Range

\* An in-range update applied to an entry already at the lower extreme.
C1_Witness == status = "ok" /\ value = -Range /\ bonus = -1

\* C2: a call with |bonus| > Range aborts on the assertion and leaves the
\* stored value as it was; a call with |bonus| = Range is accepted and applied
\* (the update then stores exactly the bonus).
C2_BonusPrecondition ==
    [][ /\ (Abs(bonus') > Range => status' = "assert_bonus" /\ value' = value)
        /\ (Abs(bonus') = Range => status' = "ok" /\ value' = bonus') ]_vars

\* The entry was driven to Range by bonus = Range, then bonus = -(Range+1) aborted.
C2_Witness == status = "assert_bonus" /\ bonus = -(Range + 1) /\ value = Range

----------------------------------------------------------------------------
(* Repeated updates with one fixed bonus *)

\* Entry values the repetition starts from: the extremes, their neighbours,
\* the values around zero and two values in between.
StartValues ==
    {-Range, 1 - Range, -(Range \div 2), -1, 0, 1, Range \div 3, Range - 1, Range}

InitRepeat ==
    /\ value \in StartValues
    /\ start = value
    /\ bonus \in {b \in ValidBonuses : b # 0}
    /\ status = "ok"
    /\ InitRaceIdle
    /\ InitParamIdle /\ InitWeightIdle
    /\ InitEvalIdle

\* operator<<(bonus) once more, with the bonus of the previous call
Repeat == Update(bonus) /\ UNCHANGED <<start, raceVars, paramVars, evalVars, weightVars>>

NextRepeat == Repeat

\* The caller keeps calling: the loop that repeats the update is never starved.
SpecRepeat == InitRepeat /\ [][NextRepeat]_vars /\ WF_vars(Repeat)

Sign(x) == IF x > 0 THEN 1 ELSE IF x < 0 THEN -1 ELSE 0

\* C9: under repeated updates with one fixed nonzero in-range bonus the value
\* never moves away from the bonus's sign (it never decreases for a positive
\* bonus, never increases for a negative one), and from some point on it has
\* the sign of the bonus for ever.
C9_PulledTowardBonusSign ==
    /\ [][ /\ (bonus > 0 => value' >= value)
           /\ (bonus < 0 => value' <= value) ]_vars
    /\ <>[](Sign(value) = Sign(bonus))

\* An entry that started at the extreme of the opposite sign has crossed zero.
C9_Witness == start = Range /\ bonus = -1 /\ value < 0 /\ status = "ok"

----------------------------------------------------------------------------
(* Several search workers updating one entry without synchronisation *)

NumWorkers == 2
MaxRaceUpdates == 3

Workers == 1 .. NumWorkers

RaceBonuses == {-Range, -(Range \div 2), -1, 1, Range \div 2, Range}

\* "value += bonus - value * |bonus| / Range" on a plain int16_t is a data
\* race.  The expression reads value twice (inside the product and as the left
\* operand of +=); a build may keep the first read in a register (reload =
\* FALSE: one read, then the write) or read the memory again (reload = TRUE).
InitRace ==
    /\ InitHist
    /\ InitRepeatIdle
    /\ reload \in BOOLEAN
    /\ wpc = [w \in Workers |-> "idle"]
    /\ wbonus = [w \in Workers |-> 0]
    /\ wrhs = [w \in Workers |-> 0]
    /\ wlhs = [w \in Workers |-> 0]
    /\ wdone = 0
    /\ lost = FALSE
    /\ InitParamIdle /\ InitWeightIdle
    /\ InitEvalIdle

\* Entry of operator<<: the bonus assertion (every bonus of RaceBonuses passes
\* it), then the read of value in the product.
Load(w, b) ==
    /\ status = "ok"
    /\ wpc[w] = "idle"
    /\ wdone < MaxRaceUpdates
    /\ wdone' = wdone + 1
    /\ wbonus' = [wbonus EXCEPT ![w] = b]
    /\ BonusAssert(b)
    /\ wrhs' = [wrhs EXCEPT ![w] = value]
    /\ wlhs' = [wlhs EXCEPT ![w] = value]
    /\ wpc' = [wpc EXCEPT ![w] = IF reload THEN "reload" ELSE "store"]
    /\ UNCHANGED <<value, bonus, status, start, reload, lost, paramVars, evalVars, weightVars>>

\* The second read of value (left operand of +=), in builds that read again.
Reload(w) ==
    /\ status = "ok"
    /\ wpc[w] = "reload"
    /\ wlhs' = [wlhs EXCEPT ![w] = value]
    /\ wpc' = [wpc EXCEPT ![w] = "store"]
    /\ UNCHANGED <<value, bonus, status, start, reload, wbonus, wrhs, wdone, lost, paramVars, evalVars, weightVars>>

\* The write of value; the operands read are dead afterwards.
Store(w) ==
    /\ status = "ok"
    /\ wpc[w] = "store"
    /\ value' = EntryStore(wlhs[w], wrhs[w], wbonus[w])
    /\ lost' = (lost \/ value # wrhs[w])
    /\ wpc' = [wpc EXCEPT ![w] = "check"]
    /\ wbonus' = [wbonus EXCEPT ![w] = 0]
    /\ wrhs' = [wrhs EXCEPT ![w] = 0]
    /\ wlhs' = [wlhs EXCEPT ![w] = 0]
    /\ UNCHANGED <<bonus, status, start, reload, wdone, paramVars, evalVars, weightVars>>

\* assert(std::abs(value) <= Range): reads value once more.
Check(w) ==
    /\ status = "ok"
    /\ wpc[w] = "check"
    /\ status' = IF ValueAssert(value) THEN "ok" ELSE "assert_value"
    /\ wpc' = [wpc EXCEPT ![w] = "idle"]
    /\ UNCHANGED <<value, bonus, start, reload, wbonus, wrhs, wlhs, wdone, lost, paramVars, evalVars, weightVars>>

NextRace ==
    \E w \in Workers :
        \/ \E b \in RaceBonuses : Load(w, b)
        \/ Reload(w)
        \/ Store(w)
        \/ Check(w)

SpecRace == InitRace /\ [][NextRace]_vars

\* C10: when every update is one read of the stored value followed by one
\* write of old + bonus - old*|bonus|/Range (builds that do not read value a
\* second time), the stored value stays in [-Range, Range] under every
\* interleaving of the workers, lost updates included.
C10_RaceKeepsRange == ~reload => Abs(value) <= Range

\* A store has overwritten a concurrent store it never read, in a one-read
\* build, with all updates finished and the entry at an extreme.
C10_Witness ==
    /\ ~reload
    /\ lost
    /\ \A w \in Workers : wpc[w] = "idle"
    /\ Abs(value) = Range

\* In a build that reads value twice the same race can store a value outside
\* the range: TLC finds this formula violated under SpecRace.
ReloadKeepsRange == reload => Abs(value) <= Range

----------------------------------------------------------------------------
(* search/history.h: everything an entry and its table expose *)

\* Arguments of operator= and init: int16_t values inside the range, next to
\* its ends, and at the ends of the type.
MaxAssignSlack == 1
AssignValues ==
    {-32768, 32767, 0, Range \div 2, -(Range \div 2)}
        \cup {Range + j : j \in (-MaxAssignSlack) .. MaxAssignSlack}
        \cup {-(Range + j) : j \in (-MaxAssignSlack) .. MaxAssignSlack}

\* Arguments of operator<<: large bonuses of both signs, and one outside the range
EntryBonuses == {-Range, -(Range \div 2), Range \div 3, Range, Range + 1}

\* void operator=(const T &v) { value = v; }
MutAssignClamped(v) == IF v > Range THEN Range ELSE IF v < -Range THEN -Range ELSE v
EntryAssign(v) == v

\* entry = v
Assign(v) ==
    /\ status = "ok"
    /\ value' = EntryAssign(v)
    /\ start' = v
    /\ bonus' = 0
    /\ lastOp' = "assign"
    /\ UNCHANGED <<status, raceVars, paramVars, moves, moveCache, accumulator,
                   valueSumBoardHistory, snapCache, snapAcc, undone, weightVars>>

\* table.init(fillValue), and initAs<T>(fillValue): std::fill_n over the
\* table writes fillValue into the entry
TableInit(v) ==
    /\ status = "ok"
    /\ value' = v
    /\ start' = v
    /\ bonus' = 0
    /\ lastOp' = "init"
    /\ UNCHANGED <<status, raceVars, paramVars, moves, moveCache, accumulator,
                   valueSumBoardHistory, snapCache, snapAcc, undone, weightVars>>

\* entry << b
EntryShift(b) ==
    /\ Update(b)
    /\ lastOp' = "update"
    /\ UNCHANGED <<start, raceVars, paramVars, moves, moveCache, accumulator,
                   valueSumBoardHistory, snapCache, snapAcc, undone, weightVars>>

NextEntry ==
    \/ \E v \in AssignValues : Assign(v)
    \/ \E v \in AssignValues : TableInit(v)
    \/ \E b \in EntryBonuses : EntryShift(b)

\* The table after init(0), the reset at the start of a search
SpecEntry == Init /\ [][NextEntry]_vars

\* C11 as stated: over every sequence of init, assignment and update the
\* stored value is in [-Range, Range].
C11_AlwaysWithinRange == value \in (-Range) .. Range

\* C11, amended: operator= and init store their argument as it is; the stored
\* value is in [-Range, Range] whenever the value last written by operator= or
\* init was, whatever updates followed it.
C11_WithinRangeSinceInRangeWrite ==
    /\ Abs(start) <= Range => Abs(value) <= Range
    /\ lastOp \in {"assign", "init"} => value = start

\* An update took an entry assigned the lower extreme to the upper extreme.
C11_Witness ==
    /\ lastOp = "update" /\ status = "ok"
    /\ start = -Range /\ bonus = Range /\ value = Range

----------------------------------------------------------------------------
(* search/ab/parameter.h *)

\* A Depth (float) is modelled as the rational k / DepthDen.  For DepthDen a
\* power of two at most 64 and |k / DepthDen| < 8 every float operation of
\* the formulas below is exact, so the float results equal the rational ones.
DepthDen == 8
MaxDepthK == 32
NegDepthK == 12
MaxDelta == 20

DepthKs == (-NegDepthK) .. MaxDepthK
Deltas == (-MaxDelta) .. MaxDelta

\* constexpr Value MARGIN_INFINITE = Value(INT16_MAX)
MARGIN_INFINITE == 32767

Max(a, b) == IF a >= b THEN a ELSE b

\* return prevDelta ? prevDelta * 3 / 2 + 5 : Value(17);
MutAspirationDivFirst(prevDelta) ==
    IF prevDelta # 0 THEN TruncDiv(prevDelta, 2) * 3 + 5 ELSE 17
nextAspirationWindowDelta(prevDelta) ==
    IF prevDelta # 0 THEN TruncDiv(prevDelta * 3, 2) + 5 ELSE 17

\* d < 3.36f, for d = k / DepthDen
BelowRazorDepth(k) == 100 * k < 336 * DepthDen

\* int(0.125f * d * d + 46 * d), for d = k / DepthDen:
\* 0.125 d^2 + 46 d = (k^2 + 368 DepthDen k) / (8 DepthDen^2)
RazorQuadratic(k) ==
    TruncDiv(k * k + 368 * DepthDen * k, 8 * DepthDen * DepthDen)

\* return d < 3.36f ? Value(std::max(int(0.125f*d*d + 46*d) + 49, 0)) : MARGIN_INFINITE;
MutRazorNoFloorAtZero(k) ==
    IF BelowRazorDepth(k) THEN RazorQuadratic(k) + 49 ELSE MARGIN_INFINITE
razorMargin(k) ==
    IF BelowRazorDepth(k) THEN Max(RazorQuadratic(k) + 49, 0) ELSE MARGIN_INFINITE

RECURSIVE Pow(_, _)
Pow(a, n) == IF n = 0 THEN 1 ELSE a * Pow(a, n - 1)

\* int(std::pow(i, 1.4)): the largest m with m^5 <= i^7
PowInt14(i) == CHOOSE m \in 0 .. (i * i) : Pow(m, 5) <= Pow(i, 7) /\ Pow(m + 1, 5) > Pow(i, 7)

\* std::array<int, MAX_MOVES + 1> MC {0}; for (i = 1; ...) MC[i] = 3 + int(std::pow(i, 1.4));
MutFutilityMCFromZero(i) == 3 + PowInt14(i)
FutilityMC(i) == IF i = 0 THEN 0 ELSE 3 + PowInt14(i)

\* return FutilityMC[std::max(int(d), 0)] / (2 - improving);
MutFutilityHalvesImproving(k, improving) ==
    FutilityMC(Max(TruncDiv(k, DepthDen), 0)) \div (IF improving THEN 2 ELSE 1)
futilityMoveCount(k, improving) ==
    FutilityMC(Max(TruncDiv(k, DepthDen), 0)) \div (IF improving THEN 1 ELSE 2)

\* The caller keeps the call before the one it makes when both are calls of
\* the same formula.
KeepPrev(fn) == IF call.fn = fn THEN call ELSE NoCall

CallNextAspirationWindowDelta(p) ==
    /\ call' = [fn |-> "aspiration", d |-> 0, improving |-> FALSE, delta |-> p,
                result |-> nextAspirationWindowDelta(p)]
    /\ prev' = KeepPrev("aspiration")
    /\ UNCHANGED <<histVars, start, raceVars, evalVars, weightVars>>

CallRazorMargin(k) ==
    /\ call' = [fn |-> "razor", d |-> k, improving |-> FALSE, delta |-> 0,
                result |-> razorMargin(k)]
    /\ prev' = KeepPrev("razor")
    /\ UNCHANGED <<histVars, start, raceVars, evalVars, weightVars>>

CallFutilityMoveCount(k, improving) ==
    /\ call' = [fn |-> "futility", d |-> k, improving |-> improving, delta |-> 0,
                result |-> futilityMoveCount(k, improving)]
    /\ prev' = KeepPrev("futility")
    /\ UNCHANGED <<histVars, start, raceVars, evalVars, weightVars>>

NextParam ==
    \/ \E p \in Deltas : CallNextAspirationWindowDelta(p)
    \/ \E k \in DepthKs : CallRazorMargin(k)
    \/ \E k \in DepthKs, i \in BOOLEAN : CallFutilityMoveCount(k, i)

SpecParam == Init /\ [][NextParam]_vars

\* r is n / m truncated toward zero (m > 0), stated without division.
IsTruncQuotient(r, n, m) ==
    IF n >= 0 THEN r * m <= n /\ n < (r + 1) * m
              ELSE (r - 1) * m < n /\ n <= r * m

\* C6: nextAspirationWindowDelta(0) is 17, and for a nonzero previous delta p
\* the result is p*3/2 + 5 with the division truncated; for p = 17 it is 30.
C6_AspirationDelta ==
    call.fn = "aspiration" =>
        /\ (call.delta = 0 => call.result = 17)
        /\ (call.delta = 17 => call.result = 30)
        /\ (call.delta # 0 => IsTruncQuotient(call.result - 5, 3 * call.delta, 2))

\* The window was widened twice: from the initial 17 to 30.
C6_Witness ==
    /\ prev.fn = "aspiration" /\ prev.delta = 0
    /\ call.fn = "aspiration" /\ call.delta = prev.result /\ call.result = 30

\* C7: razorMargin(d) is MARGIN_INFINITE for d >= 3.36; for d < 3.36 it is
\* max(trunc(0.125 d^2 + 46 d) + 49, 0); and over [0, 3.36) a larger depth
\* never has a smaller margin.
C7_RazorMargin ==
    call.fn = "razor" =>
        /\ (100 * call.d >= 336 * DepthDen => call.result = MARGIN_INFINITE)
        /\ (100 * call.d < 336 * DepthDen =>
               \E q \in -200 .. 200 :
                   /\ IsTruncQuotient(q, call.d * call.d + 368 * DepthDen * call.d,
                                      8 * DepthDen * DepthDen)
                   /\ call.result = (IF q + 49 >= 0 THEN q + 49 ELSE 0))
        /\ (/\ prev.fn = "razor"
            /\ 0 <= prev.d /\ prev.d <= call.d
            /\ 100 * call.d < 336 * DepthDen
            => prev.result <= call.result)

\* Two finite margins at increasing depths below the threshold, after a call
\* at a negative depth whose quadratic is floored at zero.
C7_Witness ==
    /\ prev.fn = "razor" /\ call.fn = "razor"
    /\ 0 < prev.d /\ prev.d < call.d
    /\ prev.result < call.result /\ call.result < MARGIN_INFINITE

\* C8: futilityMoveCount(d, improving) never decreases when d grows with
\* improving fixed (depths <= 0 use table index 0), and at one depth the
\* count with improving is at least the count without.
C8_FutilityMoveCountMonotone ==
    (call.fn = "futility" /\ prev.fn = "futility") =>
        /\ (prev.improving = call.improving /\ prev.d <= call.d
               => prev.result <= call.result)
        /\ (prev.d = call.d /\ call.improving /\ ~prev.improving
               => prev.result <= call.result)

\* A call at a negative depth followed by one at depth >= 2 with a larger count.
C8_Witness ==
    /\ prev.fn = "futility" /\ call.fn = "futility"
    /\ prev.improving = call.improving
    /\ prev.d < 0 /\ call.d >= 2 * DepthDen
    /\ prev.result < call.result

----------------------------------------------------------------------------
(* search/ab/parameter.h: the late move reduction *)

\* The move-indexed tables have MAX_MOVES + 1 entries.
MAX_MOVES == 6
\* A Depth passed to reduction is the rational k / LmrDepthDen.
LmrDepthDen == 2
\* Largest window width passed as delta or rootDelta
MaxLmrDelta == 2

\* Table entries are held in thousandths.
LutScale == 1000
LutScaleSq == LutScale * LutScale

\* initReductionLUT(lut, numThreads) for numThreads = 1 (threadBias = 0):
\* lut[0] = 0.0f; lut[i] = float(log(i) / sqrt(1.95)), in thousandths
ReductionLUTValues == <<0, 0, 496, 787, 993, 1153, 1283, 1393, 1489, 1573, 1649>>
lut == [i \in 0 .. MAX_MOVES |-> ReductionLUTValues[i + 1]]

LmrDepthKs == (-LmrDepthDen) .. ((MAX_MOVES + 2) * LmrDepthDen)
MoveCounts == -1 .. (MAX_MOVES + 1)
Improvements == {-1, 0, 1}
LmrDeltas == 0 .. MaxLmrDelta
RootDeltas == 1 .. MaxLmrDelta

\* lut[i] as the build reads it.  A read past the end of the std::array is
\* undefined: the build either faults or yields whatever float follows the
\* array.
OutOfTableValues == {-LutScale, 0, 2 * LutScale}
LutRead(i) ==
    IF i \in DOMAIN lut
    THEN {[fault |-> FALSE, v |-> lut[i]]}
    ELSE {[fault |-> TRUE, v |-> 0]}
             \cup {[fault |-> FALSE, v |-> g] : g \in OutOfTableValues}

\* Depth r = lut[(int)d] * lut[moveCount];
\* if constexpr (PvNode) return std::max(r - Depth(delta) / Depth(rootDelta), 0.0f);
\* else                  return r + (improvement <= 0 && r > 1.0f);
\* for the two table entries a and b already read.  The result is the
\* rational num / den.
MutReductionNoFloor(PvNode, a, b, improvement, delta, rootDelta) ==
    IF PvNode
    THEN [num |-> a * b * rootDelta - delta * LutScaleSq,
          den |-> rootDelta * LutScaleSq]
    ELSE [num |-> a * b + (IF improvement <= 0 /\ a * b > LutScaleSq
                           THEN LutScaleSq ELSE 0),
          den |-> LutScaleSq]
reduction(PvNode, a, b, improvement, delta, rootDelta) ==
    IF PvNode
    THEN [num |-> Max(a * b * rootDelta - delta * LutScaleSq, 0),
          den |-> rootDelta * LutScaleSq]
    ELSE [num |-> a * b + (IF improvement <= 0 /\ a * b > LutScaleSq
                           THEN LutScaleSq ELSE 0),
          den |-> LutScaleSq]

LmrCall(PvNode, k, moveCount, improvement, delta, rootDelta, outcome, reads, res) ==
    [fn |-> "reduction", pv |-> PvNode, d |-> k, moveCount |-> moveCount,
     improvement |-> improvement, delta |-> delta, rootDelta |-> rootDelta,
     outcome |-> outcome, reads |-> reads, num |-> res.num, den |-> res.den]

NoResult == [num |-> 0, den |-> 1]

\* One call of reduction<PvNode>(lut, d, moveCount, improvement, delta, rootDelta)
\* made while no call is in progress
Reduction(PvNode, k, moveCount, improvement, delta, rootDelta) ==
    /\ call = NoCall
    /\ call' \in
         IF ~(k > 0)
         THEN \* assert(d > 0.0f);
              {LmrCall(PvNode, k, moveCount, improvement, delta, rootDelta,
                       "assert_depth", {}, NoResult)}
         ELSE IF ~(moveCount > 0 /\ moveCount < MAX_MOVES + 1)
         THEN \* assert(moveCount > 0 && moveCount < lut.size());
              {LmrCall(PvNode, k, moveCount, improvement, delta, rootDelta,
                       "assert_moveCount", {}, NoResult)}
         ELSE {LmrCall(PvNode, k, moveCount, improvement, delta, rootDelta,
                       IF a.fault THEN "fault" ELSE "ok",
                       {TruncDiv(k, LmrDepthDen), moveCount},
                       IF a.fault THEN NoResult
                       ELSE reduction(PvNode, a.v, lut[moveCount], improvement,
                                      delta, rootDelta)) :
                  a \in LutRead(TruncDiv(k, LmrDepthDen))}

\* The template ignores improvement at a PV node and the window elsewhere.
CallReductionPv(k, moveCount, delta, rootDelta) ==
    /\ Reduction(TRUE, k, moveCount, 0, delta, rootDelta)
    /\ UNCHANGED <<prev, histVars, start, raceVars, evalVars, weightVars>>

CallReductionNonPv(k, moveCount, improvement) ==
    /\ Reduction(FALSE, k, moveCount, improvement, 0, 1)
    /\ UNCHANGED <<prev, histVars, start, raceVars, evalVars, weightVars>>

\* The caller takes the returned reduction.  A call stopped by an assertion
\* or a fault has ended the process.
ReductionReturn ==
    /\ call.fn = "reduction" /\ call.outcome = "ok"
    /\ call' = NoCall
    /\ UNCHANGED <<prev, histVars, start, raceVars, evalVars, weightVars>>

NextLmr ==
    \/ \E k \in LmrDepthKs, m \in MoveCounts, p \in LmrDeltas, q \in RootDeltas :
           CallReductionPv(k, m, p, q)
    \/ \E k \in LmrDepthKs, m \in MoveCounts, i \in Improvements :
           CallReductionNonPv(k, m, i)
    \/ ReductionReturn

SpecLmr == Init /\ [][NextLmr]_vars

\* A call both assertions let through
LmrAccepted == call.fn = "reduction" /\ call.outcome \in {"ok", "fault"}

\* C12: on a call that returns, i = trunc(d) and r = lut[i] * lut[moveCount];
\* at a PV node the result is max(r - delta / rootDelta, 0), never negative;
\* elsewhere it is r + 1 exactly when improvement <= 0 and r > 1, and r
\* otherwise.
C12_ReductionValue ==
    (/\ call.fn = "reduction" /\ call.outcome = "ok"
     /\ call.reads \subseteq DOMAIN lut) =>
        \E i \in DOMAIN lut :
            /\ IsTruncQuotient(i, call.d, LmrDepthDen)
            /\ \E r \in {lut[i] * lut[call.moveCount]} :
                 IF call.pv
                 THEN /\ call.den = call.rootDelta * LutScaleSq
                      /\ call.num >= 0
                      /\ call.num >= r * call.rootDelta - call.delta * LutScaleSq
                      /\ \/ call.num = 0
                         \/ call.num = r * call.rootDelta - call.delta * LutScaleSq
                 ELSE /\ call.den = LutScaleSq
                      /\ (call.improvement <= 0 /\ r > LutScaleSq
                             => call.num = r + LutScaleSq)
                      /\ (~(call.improvement <= 0 /\ r > LutScaleSq)
                             => call.num = r)

\* A PV call whose base is positive and smaller than delta / rootDelta: the
\* difference is negative and the result is zero.
C12_Witness ==
    /\ call.fn = "reduction" /\ call.outcome = "ok" /\ call.pv
    /\ call.reads \subseteq DOMAIN lut
    /\ \E i \in call.reads :
           /\ lut[i] * lut[call.moveCount] > 0
           /\ lut[i] * lut[call.moveCount] * call.rootDelta
                  < call.delta * LutScaleSq
    /\ call.num = 0

\* C13: a call with d <= 0, moveCount <= 0 or moveCount >= the table size
\* stops at an assertion and returns nothing, and every index read by a call
\* the assertions let through is an index of the table.
C13_RejectsOrReadsInsideTable ==
    call.fn = "reduction" =>
        /\ (call.d <= 0 \/ call.moveCount <= 0 \/ call.moveCount >= MAX_MOVES + 1)
               => (call.outcome \in {"assert_depth", "assert_moveCount"}
                   /\ call.reads = {})
        /\ LmrAccepted => call.reads \subseteq DOMAIN lut

----------------------------------------------------------------------------
(* search/ab/parameter.h: the futility move-count table *)

\* A read of FutilityMC[i]
ReadFutilityMC(i) ==
    /\ call' = [fn |-> "MC", d |-> i, improving |-> FALSE, delta |-> 0,
                result |-> FutilityMC(i)]
    /\ prev' = KeepPrev("MC")
    /\ UNCHANGED <<histVars, start, raceVars, evalVars, weightVars>>

NextFutility ==
    \/ \E i \in 0 .. MAX_MOVES : ReadFutilityMC(i)
    \/ \E k \in DepthKs, i \in BOOLEAN : CallFutilityMoveCount(k, i)

SpecFutility == Init /\ [][NextFutility]_vars

\* m is trunc(i^1.4): m^5 <= i^7 < (m + 1)^5
IsTruncPow14(m, i) == Pow(m, 5) <= Pow(i, 7) /\ Pow(i, 7) < Pow(m + 1, 5)

\* C14 as stated: every entry MC[i], 0 <= i <= MAX_MOVES, is 3 + trunc(i^1.4),
\* and futilityMoveCount(d, improving) is MC[trunc(d)] / (2 - improving) with
\* the division truncated.
C14_EveryEntryAndCount ==
    /\ call.fn = "MC" =>
           \E m \in 0 .. (call.d * call.d) :
               IsTruncPow14(m, call.d) /\ call.result = 3 + m
    /\ call.fn = "futility" =>
           \E i \in 0 .. MAX_MOVES :
               /\ IsTruncQuotient(i, call.d, DepthDen)
               /\ IsTruncQuotient(call.result, FutilityMC(i),
                                  IF call.improving THEN 1 ELSE 2)

\* C14, amended: MC[0] is 0 and every entry MC[i], 1 <= i <= MAX_MOVES, is
\* 3 + trunc(i^1.4); futilityMoveCount(d, improving) is
\* MC[max(trunc(d), 0)] / (2 - improving) with the division truncated.
C14_EntriesFromOneAndClampedCount ==
    /\ call.fn = "MC" =>
           IF call.d = 0
           THEN call.result = 0
           ELSE \E m \in 0 .. (call.d * call.d) :
                    IsTruncPow14(m, call.d) /\ call.result = 3 + m
    /\ call.fn = "futility" =>
           \E i \in 0 .. MAX_MOVES :
               /\ IF call.d < 0 THEN i = 0
                                ELSE IsTruncQuotient(i, call.d, DepthDen)
               /\ IsTruncQuotient(call.result, FutilityMC(i),
                                  IF call.improving THEN 1 ELSE 2)

\* The count at a depth below -1 is MC[0] / 1 = 0; the next call, at depth 2
\* while improving, returns MC[2] = 3 + trunc(2^1.4) = 5.
C14_Witness ==
    /\ prev.fn = "futility" /\ prev.d < -DepthDen /\ prev.improving
    /\ prev.result = 0
    /\ call.fn = "futility" /\ call.d = 2 * DepthDen /\ call.improving
    /\ call.result = 5

----------------------------------------------------------------------------
(* eval/mix8nnue.h: Mix8Accumulator and Mix8Evaluator.  The header declares *)
(* the state and isContraryMove; the bodies of clear, update, addCache and  *)
(* clearCache are modelled from the specification of the evaluator.         *)

\* Mix8Accumulator::boardSize
BoardSize == 2
\* Half width of the line window a stone influences
HalfLine == 1
\* Number of plies the board is played to
MaxPly == 2
\* Most stones placed on the single accumulator of SpecAcc.
MaxAccPly == 3

Sides == {"BLACK", "WHITE"}
Opponent(c) == IF c = "BLACK" THEN "WHITE" ELSE "BLACK"

Cells == (0 .. BoardSize - 1) \X (0 .. BoardSize - 1)
DirVec == << <<1, 0>>, <<0, 1>>, <<1, 1>>, <<1, -1>> >>
DirIds == 1 .. Len(DirVec)
Offsets == (-HalfLine) .. HalfLine

OnBoard(x, y) == x \in 0 .. BoardSize - 1 /\ y \in 0 .. BoardSize - 1

\* The function f itself, held as a table: the comparison makes TLC
\* enumerate it once instead of evaluating it at every application.
Tabulated(f) == CHOOSE g \in {f} : g = g

\* The cells in storage order (y * boardSize + x), numbered from 0
NumCells == BoardSize * BoardSize
CellAt(i) == <<i % BoardSize, i \div BoardSize>>

\* f[1] + ... + f[n]
RECURSIVE SumTo(_, _)
SumTo(f, n) == IF n = 0 THEN 0 ELSE f[n] + SumTo(f, n - 1)

\* The sum of f over the four directions, and over all cells of the board
SumDirs(f) == SumTo(f, Len(DirVec))
SumCells(f) == SumTo([i \in 1 .. NumCells |-> f[CellAt(i - 1)]], NumCells)

\* The weight blob (opaque to the evaluator): mapping row of a line shape,
\* PReLU after the mapping, depthwise convolution weights and bias.
ShapeBase == Pow(3, 2 * HalfLine + 1)
Mapping(shape) == ((shape * 7) % 13) - 6
MapPrelu(x) == IF x >= 0 THEN x ELSE -((-x) \div 2)
DWConvWeight(dx, dy) == 1 + (((dx + 1) + 3 * (dy + 1)) % 4)
DWConvBias == 1
ValueRelu(x) == IF x >= 0 THEN x ELSE 0

\* Mix8Accumulator::initIndexTable: the shape of an empty line window, which
\* encodes how many of its cells lie outside the board.
InitIndex(q, d) ==
    ShapeBase * Cardinality({j \in Offsets :
        ~OnBoard(q[1] + j * DirVec[d][1], q[2] + j * DirVec[d][2])})

\* Color code of a stone inside a line shape (1: own side of the weights' view, 2: other)
ColorCode(c) == IF c = "BLACK" THEN 1 ELSE 2

\* Contribution of a stone of color c at p to the shape index of cell q in direction d
IndexDelta(p, c, q, d) ==
    LET js == {j \in Offsets :
                 q[1] + j * DirVec[d][1] = p[1] /\ q[2] + j * DirVec[d][2] = p[2]}
    IN  IF js = {} THEN 0
        ELSE ColorCode(c) * Pow(3, (CHOOSE j \in js : TRUE) + HalfLine)

\* IndexDelta of every stone at every cell and direction, computed once
IndexDeltaTable ==
    Tabulated([p \in Cells |-> [c \in Sides |-> [q \in Cells |-> [d \in DirIds |->
                  IndexDelta(p, c, q, d)]]]])

\* Cells whose depthwise convolution output reads cell q (3x3 neighbourhood)
Near(n, q) == Abs(n[1] - q[1]) <= 1 /\ Abs(n[2] - q[2]) <= 1

\* Weight with which the convolution output at n reads cell q (0: not read)
DWConvTable ==
    Tabulated([n \in Cells |-> [q \in Cells |->
                  IF Near(n, q) THEN DWConvWeight(q[1] - n[1], q[2] - n[2]) ELSE 0]])

ConvOf(mapSum, n) ==
    DWConvBias
      + SumCells([q \in Cells |-> DWConvTable[n][q] * MapPrelu(mapSum[q])])

ValueFeature(mapSum, conv, q) == ValueRelu(conv[q]) + mapSum[q]

\* Mix8Accumulator::clear: accumulator state of the empty board
AccClear ==
    LET idx == Tabulated([q \in Cells |-> [d \in DirIds |-> InitIndex(q, d)]])
        ms  == Tabulated([q \in Cells |->
                            SumDirs([d \in DirIds |-> Mapping(idx[q][d])])])
        cv  == Tabulated([n \in Cells |-> ConvOf(ms, n)])
    IN  [valueSum |-> SumCells([q \in Cells |-> ValueFeature(ms, cv, q)]),
         indexTable |-> idx, mapSum |-> ms, mapAfterDWConv |-> cv]

\* valueSum after an update: MOVE folds the delta of the value features in,
\* UNDO restores the copy saved before the move (valueSumBoardBackup).
MutValueSumUndoKeepsSum(old, ut, delta, backup) ==
    IF ut = "MOVE" THEN old + delta ELSE old
ValueSumAfter(old, ut, delta, backup) ==
    IF ut = "MOVE" THEN old + delta ELSE backup

\* Mix8Accumulator::update<UT>(w, pieceColor, x, y, valueSumBoardBackup):
\* the shape indices of the cells on the four lines through p change by the
\* stone's contribution, the feature deltas are folded into mapSum, the
\* convolution is refreshed around them, and valueSum is updated.
AccUpdate(acc, ut, c, p, backup) ==
    LET sgn == IF ut = "MOVE" THEN 1 ELSE -1
        dI  == IndexDeltaTable[p][c]
        idx == Tabulated([q \in Cells |-> [d \in DirIds |->
                  acc.indexTable[q][d] + sgn * dI[q][d]]])
        ms  == Tabulated([q \in Cells |->
                  acc.mapSum[q]
                    + SumDirs([d \in DirIds |->
                                 IF dI[q][d] = 0 THEN 0
                                 ELSE Mapping(idx[q][d]) - Mapping(acc.indexTable[q][d])])])
        dm  == Tabulated([q \in Cells |-> MapPrelu(ms[q]) - MapPrelu(acc.mapSum[q])])
        cv  == Tabulated([n \in Cells |->
                  acc.mapAfterDWConv[n]
                    + SumCells([q \in Cells |-> DWConvTable[n][q] * dm[q]])])
        dv  == SumCells([q \in Cells |->
                          ValueFeature(ms, cv, q)
                            - ValueFeature(acc.mapSum, acc.mapAfterDWConv, q)])
    IN  [valueSum |-> ValueSumAfter(acc.valueSum, ut, dv, backup),
         indexTable |-> idx, mapSum |-> ms, mapAfterDWConv |-> cv]

\* The accumulator of the empty board, nothing deferred (after construction
\* and initEmptyBoard).
NoSnap == <<>>

InitEval ==
    /\ InitHist /\ InitRepeatIdle /\ InitRaceIdle /\ InitParamIdle /\ InitWeightIdle
    /\ moves = <<>>
    /\ moveCache = [s \in Sides |-> <<>>]
    /\ accumulator = [s \in Sides |-> AccClear]
    /\ valueSumBoardHistory = [s \in Sides |-> <<>>]
    /\ lastOp = "init"
    /\ snapCache = NoSnap
    /\ snapAcc = NoSnap
    /\ undone = FALSE

Occupied(p) == \E i \in 1 .. Len(moves) : moves[i].pos = p
Last(q) == q[Len(q)]
Front(q) == SubSeq(q, 1, Len(q) - 1)

----------------------------------------------------------------------------
(* The accumulator driven directly: clear, update<MOVE>, update<UNDO> *)

AccSide == "BLACK"

\* update<MOVE> of a stone of color c at the empty cell p; the caller saves
\* valueSum first (the copy update<UNDO> restores).
AccMove(c, p) ==
    /\ Len(moves) < MaxAccPly
    /\ ~Occupied(p)
    /\ moves' = Append(moves, [pos |-> p, color |-> c])
    /\ valueSumBoardHistory' =
         [valueSumBoardHistory EXCEPT
            ![AccSide] = Append(@, accumulator[AccSide].valueSum)]
    /\ accumulator' =
         [accumulator EXCEPT ![AccSide] = AccUpdate(@, "MOVE", c, p, 0)]
    /\ snapAcc' = accumulator
    /\ lastOp' = "move"
    /\ UNCHANGED <<moveCache, snapCache, undone, histVars, start, raceVars, paramVars, weightVars>>

\* update<UNDO> of the stone placed last
AccUndo ==
    /\ moves # <<>>
    /\ moves' = Front(moves)
    /\ accumulator' =
         [accumulator EXCEPT
            ![AccSide] = AccUpdate(@, "UNDO", Last(moves).color, Last(moves).pos,
                                   Last(valueSumBoardHistory[AccSide]))]
    /\ valueSumBoardHistory' = [valueSumBoardHistory EXCEPT ![AccSide] = Front(@)]
    /\ snapAcc' = (IF lastOp = "move" THEN snapAcc ELSE NoSnap)
    /\ lastOp' = (IF lastOp = "move" THEN "moveundo" ELSE "undo")
    /\ UNCHANGED <<moveCache, snapCache, undone, histVars, start, raceVars, paramVars, weightVars>>

\* clear(w)
AccClearOp ==
    /\ moves # <<>>
    /\ moves' = <<>>
    /\ accumulator' = [accumulator EXCEPT ![AccSide] = AccClear]
    /\ valueSumBoardHistory' = [valueSumBoardHistory EXCEPT ![AccSide] = <<>>]
    /\ snapAcc' = NoSnap
    /\ lastOp' = "clear"
    /\ UNCHANGED <<moveCache, snapCache, undone, histVars, start, raceVars, paramVars, weightVars>>

NextAcc ==
    \/ \E c \in Sides, p \in Cells : AccMove(c, p)
    \/ AccUndo
    \/ AccClearOp

SpecAcc == InitEval /\ [][NextAcc]_vars

\* C3: update<MOVE> at a cell followed at once by update<UNDO> of the same
\* stone leaves valueSum, mapSum, mapAfterDWConv and indexTable exactly as
\* they were before the pair, from every accumulator state reached by moves
\* after clear().
C3_MoveUndoRoundTrip ==
    lastOp = "moveundo" => accumulator = snapAcc

\* A move and its undo on top of two stones already folded into the accumulator.
C3_Witness ==
    /\ lastOp = "moveundo"
    /\ Len(moves) = 2
    /\ accumulator[AccSide] # AccClear

----------------------------------------------------------------------------
(* Mix8Evaluator: deferred application of board deltas *)

\* The side to move: black moves first and the sides alternate.
SideToMove(ms) == IF Len(ms) % 2 = 0 THEN "BLACK" ELSE "WHITE"

\* friend bool isContraryMove(MoveCache a, MoveCache b)
MutContraryIgnoresCoord(a, b) ==
    LET isContrary == a.oldColor = b.newColor /\ a.newColor = b.oldColor
    IN  isContrary
MutContrarySameColors(a, b) ==
    LET isSameCoord == a.x = b.x /\ a.y = b.y
        isContrary  == a.oldColor = b.oldColor /\ a.newColor = b.newColor
    IN  isSameCoord /\ isContrary
isContraryMove(a, b) ==
    LET isSameCoord == a.x = b.x /\ a.y = b.y
        isContrary  == a.oldColor = b.newColor /\ a.newColor = b.oldColor
    IN  isSameCoord /\ isContrary

\* MoveCache { oldColor, newColor, x, y } of a stone of color c placed at
\* (isUndo = FALSE) or taken from (isUndo = TRUE) the cell p
CacheEntry(c, p, isUndo) ==
    [oldColor |-> IF isUndo THEN c ELSE "EMPTY",
     newColor |-> IF isUndo THEN "EMPTY" ELSE c,
     x |-> p[1], y |-> p[2]]

\* addCache, for one side's cache: an entry contrary to the last one cancels
\* it, any other entry is appended.
AddCache(cache, e) ==
    IF cache = <<>> \/ ~isContraryMove(e, Last(cache))
      THEN Append(cache, e)
      ELSE Front(cache)

\* The color of a stone as the accumulator of `side` sees it: white's
\* accumulator sees the board with the colors exchanged.
ViewColor(side, c) == IF side = "WHITE" THEN Opponent(c) ELSE c

\* clearCache(side): the deferred entries are applied in order; a placed
\* stone saves valueSum and is applied with update<MOVE>, a removed stone is
\* applied with update<UNDO> and the saved valueSum.  The result is the
\* accumulator, the saved sums and whether an UNDO was applied.  (Each
\* intermediate accumulator is bound as the single element of a set, so that
\* it is computed once.)
RECURSIVE ClearCache(_, _, _, _)
ClearCache(side, cache, acc, hist) ==
    IF cache = <<>> THEN [acc |-> acc, hist |-> hist, undid |-> FALSE]
    ELSE LET mc == Head(cache)
             p  == <<mc.x, mc.y>>
         IN  IF mc.oldColor = "EMPTY"
               THEN CHOOSE r \in
                      {ClearCache(side, Tail(cache), a, Append(hist, acc.valueSum)) :
                         a \in {AccUpdate(acc, "MOVE", ViewColor(side, mc.newColor), p, 0)}} :
                      TRUE
               ELSE CHOOSE r \in
                      {[ClearCache(side, Tail(cache), a, Front(hist)) EXCEPT !.undid = TRUE] :
                         a \in {AccUpdate(acc, "UNDO", ViewColor(side, mc.oldColor), p,
                                          Last(hist))}} :
                      TRUE

Flushed(side) ==
    ClearCache(side, moveCache[side], accumulator[side], valueSumBoardHistory[side])

\* initEmptyBoard(), at the start of a new game
InitEmptyBoard ==
    /\ moves # <<>>
    /\ moves' = <<>>
    /\ moveCache' = [s \in Sides |-> <<>>]
    /\ accumulator' = [s \in Sides |-> AccClear]
    /\ valueSumBoardHistory' = [s \in Sides |-> <<>>]
    /\ snapCache' = NoSnap
    /\ undone' = FALSE
    /\ lastOp' = "init"
    /\ UNCHANGED <<snapAcc, histVars, start, raceVars, paramVars, weightVars>>

\* beforeMove(board, pos), then the board places the stone of the side to move
BeforeMove(p) ==
    /\ Len(moves) < MaxPly
    /\ ~Occupied(p)
    /\ moveCache' =
         [s \in Sides |-> AddCache(moveCache[s], CacheEntry(SideToMove(moves), p, FALSE))]
    /\ moves' = Append(moves, [pos |-> p, color |-> SideToMove(moves)])
    /\ snapCache' = moveCache
    /\ undone' = FALSE
    /\ lastOp' = "move"
    /\ UNCHANGED <<accumulator, valueSumBoardHistory, snapAcc,
                   histVars, start, raceVars, paramVars, weightVars>>

\* The board takes its last stone back, then afterUndo(board, pos)
AfterUndo ==
    /\ moves # <<>>
    /\ moves' = Front(moves)
    /\ moveCache' =
         [s \in Sides |->
            AddCache(moveCache[s], CacheEntry(Last(moves).color, Last(moves).pos, TRUE))]
    /\ snapCache' = (IF lastOp = "move" THEN snapCache ELSE NoSnap)
    /\ undone' = FALSE
    /\ lastOp' = (IF lastOp = "move" THEN "moveundo" ELSE "undo")
    /\ UNCHANGED <<accumulator, valueSumBoardHistory, snapAcc,
                   histVars, start, raceVars, paramVars, weightVars>>

\* evaluateValue(board): both sides' caches are flushed, then the value is
\* computed from both accumulators.
EvaluateValue ==
    /\ lastOp # "value"
    /\ \E f \in {[s \in Sides |-> Flushed(s)]} :
          /\ accumulator' = [s \in Sides |-> f[s].acc]
          /\ valueSumBoardHistory' = [s \in Sides |-> f[s].hist]
          /\ undone' = (\E s \in Sides : f[s].undid)
    /\ moveCache' = [s \in Sides |-> <<>>]
    /\ snapCache' = NoSnap
    /\ lastOp' = "value"
    /\ UNCHANGED <<moves, snapAcc, histVars, start, raceVars, paramVars, weightVars>>

\* evaluatePolicy(board, policyBuffer): the cache of the side to move is
\* flushed, then the policy is computed from its accumulator.
EvaluatePolicy ==
    /\ lastOp \notin {"value", "policy"}
    /\ \E self \in {SideToMove(moves)} :
         \E f \in {Flushed(self)} :
           /\ accumulator' = [accumulator EXCEPT ![self] = f.acc]
           /\ valueSumBoardHistory' = [valueSumBoardHistory EXCEPT ![self] = f.hist]
           /\ moveCache' = [moveCache EXCEPT ![self] = <<>>]
           /\ undone' = f.undid
    /\ snapCache' = NoSnap
    /\ lastOp' = "policy"
    /\ UNCHANGED <<moves, snapAcc, histVars, start, raceVars, paramVars, weightVars>>

NextEval ==
    \/ InitEmptyBoard
    \/ \E p \in Cells : BeforeMove(p)
    \/ AfterUndo
    \/ EvaluateValue
    \/ EvaluatePolicy

SpecEval == InitEval /\ [][NextEval]_vars

\* C4: beforeMove(p) followed by afterUndo(p) with no flush in between
\* records two entries that are exact inverses; both are dropped: each side's
\* move cache is what it was before the pair and no accumulator is touched.
C4_MoveUndoCancelsInCache ==
    /\ [](lastOp = "move" =>
           isContraryMove(CacheEntry(Last(moves).color, Last(moves).pos, TRUE),
                          CacheEntry(Last(moves).color, Last(moves).pos, FALSE)))
    /\ [](lastOp = "moveundo" => moveCache = snapCache)
    /\ [][lastOp' \in {"move", "moveundo", "undo"} => accumulator' = accumulator]_vars

\* The pair was recorded on top of a cache that already held a deferred entry.
C4_Witness ==
    /\ lastOp = "moveundo"
    /\ \A s \in Sides : Len(moveCache[s]) = 1

\* The accumulator of `side` cleared to the empty board with the stones of
\* the position applied directly, in the order they stand on the board.
RECURSIVE DirectAccumulator(_, _)
DirectAccumulator(side, ms) ==
    IF ms = <<>> THEN AccClear
    ELSE CHOOSE r \in
           {AccUpdate(a, "MOVE", ViewColor(side, Last(ms).color), Last(ms).pos, 0) :
              a \in {DirectAccumulator(side, Front(ms))}} :
           TRUE

\* C5: the accumulators an evaluation uses (both for the value, the side to
\* move's for the policy) equal, after the flush, the accumulators built
\* directly from the empty board for the position on the board, whatever
\* sequence of moves and undos led to it.
C5_FlushedEqualsDirect ==
    /\ lastOp = "value" =>
         \A s \in Sides : accumulator[s] = DirectAccumulator(s, moves)
    /\ lastOp = "policy" =>
         accumulator[SideToMove(moves)] = DirectAccumulator(SideToMove(moves), moves)

\* A value evaluation of a position with stones on it, whose flush had to take
\* back stones that an earlier evaluation had folded in.
C5_Witness ==
    /\ lastOp = "value"
    /\ undone
    /\ Len(moves) >= 2

----------------------------------------------------------------------------
(* eval/mix8nnue.h: Mix8WeightTwoSide, the owner of the weights of both sides *)

\* Number of Mix8WeightTwoSide objects and of Mix8Weight blobs ever created
NumWeights == 2
MaxBlobs == 3

WeightIds == 1 .. NumWeights
BlobIds == 1 .. MaxBlobs
\* nullptr
Null == 0

\* sideWeight[BLACK], sideWeight[WHITE]
BLACK == 1
WHITE == 2

NoWeight == [life |-> "none", sideWeight |-> <<Null, Null>>]
\* A blob is owned by nobody (not yet allocated), by a std::unique_ptr of the
\* caller, or by the raw pointers of a Mix8WeightTwoSide; deleted counts the
\* delete expressions applied to it.
NoBlob == [owner |-> "none", deleted |-> 0]

InitWeight ==
    /\ InitHist /\ InitRepeatIdle /\ InitRaceIdle /\ InitParamIdle /\ InitEvalIdle
    /\ weights = [o \in WeightIds |-> NoWeight]
    /\ blobs = [b \in BlobIds |-> NoBlob]

\* std::make_unique<Mix8Weight>()
MakeUnique(b) ==
    /\ blobs[b].owner = "none"
    /\ blobs' = [blobs EXCEPT ![b].owner = "unique_ptr"]
    /\ UNCHANGED <<weights, histVars, start, raceVars, paramVars, evalVars>>

\* What a unique_ptr argument may hold: nullptr or a blob it owns
Holds(p) == p = Null \/ (p \in BlobIds /\ blobs[p].owner = "unique_ptr")

\* release(): the unique_ptr gives up the blobs in ps
Released(ps) ==
    [b \in BlobIds |-> IF b \in ps THEN [blobs[b] EXCEPT !.owner = "raw"] ELSE blobs[b]]

\* Mix8WeightTwoSide(std::unique_ptr<Mix8Weight> common)
\*     : sideWeight {common.get(), common.get()} { common.release(); }
ConstructCommon(o, common) ==
    /\ weights[o].life = "none"
    /\ Holds(common)
    /\ weights' = [weights EXCEPT ![o] = [life |-> "alive",
                                          sideWeight |-> <<common, common>>]]
    /\ blobs' = Released({common})
    /\ UNCHANGED <<histVars, start, raceVars, paramVars, evalVars>>

\* Mix8WeightTwoSide(std::unique_ptr<Mix8Weight> black, std::unique_ptr<Mix8Weight> white)
\*     : sideWeight {black.release(), white.release()} {}
\* Two unique_ptrs never own the same blob.
ConstructTwoSide(o, black, white) ==
    /\ weights[o].life = "none"
    /\ Holds(black) /\ Holds(white)
    /\ black # Null => black # white
    /\ weights' = [weights EXCEPT ![o] = [life |-> "alive",
                                          sideWeight |-> <<black, white>>]]
    /\ blobs' = Released({black, white})
    /\ UNCHANGED <<histVars, start, raceVars, paramVars, evalVars>>

\* if (sideWeight[BLACK] != sideWeight[WHITE]) delete sideWeight[WHITE];
\* delete sideWeight[BLACK];
\* The pointers the destructor applies delete to, in order.
MutDeletesBothSides(sideWeight) == <<sideWeight[WHITE], sideWeight[BLACK]>>
DestructorDeletes(sideWeight) ==
    IF sideWeight[BLACK] # sideWeight[WHITE]
    THEN <<sideWeight[WHITE], sideWeight[BLACK]>>
    ELSE <<sideWeight[BLACK]>>

\* delete p, for each p of ds; delete nullptr does nothing
Deleted(ds) ==
    [b \in BlobIds |->
        [blobs[b] EXCEPT !.deleted = @ + Cardinality({i \in DOMAIN ds : ds[i] = b})]]

\* ~Mix8WeightTwoSide()
Destroy(o) ==
    /\ weights[o].life = "alive"
    /\ weights' = [weights EXCEPT ![o].life = "destroyed"]
    /\ blobs' = Deleted(DestructorDeletes(weights[o].sideWeight))
    /\ UNCHANGED <<histVars, start, raceVars, paramVars, evalVars>>

NextWeight ==
    \/ \E b \in BlobIds : MakeUnique(b)
    \/ \E o \in WeightIds, c \in BlobIds \cup {Null} : ConstructCommon(o, c)
    \/ \E o \in WeightIds, b, w \in BlobIds \cup {Null} : ConstructTwoSide(o, b, w)
    \/ \E o \in WeightIds : Destroy(o)

SpecWeight == InitWeight /\ [][NextWeight]_vars

\* The distinct blobs an object was built from
BlobsOf(o) == {weights[o].sideWeight[BLACK], weights[o].sideWeight[WHITE]} \ {Null}

\* C15: once a Mix8WeightTwoSide is destroyed, each distinct blob it was built
\* from (one common blob or two separate ones) has been deleted exactly once;
\* while it is alive none of them has been deleted; and no blob is ever
\* deleted twice.
C15_EachBlobDeletedOnce ==
    /\ \A o \in WeightIds :
           /\ weights[o].life = "destroyed" =>
                  \A b \in BlobsOf(o) : blobs[b].deleted = 1
           /\ weights[o].life = "alive" =>
                  \A b \in BlobsOf(o) : blobs[b].deleted = 0
    /\ \A b \in BlobIds : blobs[b].deleted <= 1

\* One object built from a common blob and one built from two blobs have both
\* been destroyed.
C15_Witness ==
    \E o1, o2 \in WeightIds :
        /\ weights[o1].life = "destroyed" /\ weights[o2].life = "destroyed"
        /\ weights[o1].sideWeight[BLACK] = weights[o1].sideWeight[WHITE]
        /\ weights[o1].sideWeight[BLACK] # Null
        /\ weights[o2].sideWeight[BLACK] # weights[o2].sideWeight[WHITE]
        /\ Null \notin {weights[o2].sideWeight[BLACK], weights[o2].sideWeight[WHITE]}
        /\ \A b \in BlobIds : blobs[b].deleted = 1

====
